---- MODULE Spec2Model ----
(***************************************************************************)
(* A model of llrf2025_scraper.py: the LLRF2025Scraper pipeline            *)
(* (fetch -> parse/classify -> download attachments -> export) and the     *)
(* pure helper safe_filename.                                              *)
(*                                                                         *)
(* Conventions.                                                            *)
(*  - A Python str is a sequence of one-character strings.                 *)
(*  - A Python dict is a TLA+ record whose DOMAIN is the set of keys that  *)
(*    are present; dict.get(k, default) is Get(d, k, default).             *)
(*  - None in a string position is NoneStr, None in an object position     *)
(*    (a contribution, a startDate object) is NoneObj.                     *)
(***************************************************************************)
EXTENDS Integers, Sequences, FiniteSets, TLC

VARIABLES
    server,         \* the event's raw contribution list held by the Indico server
    fs,             \* attachment files on disk: target path -> content
    pc,             \* position of run() in the pipeline
    stats,          \* self.stats
    contributions,  \* self.contributions (raw records of the fetched event)
    oral,           \* oral_contributions of process_contributions
    poster,         \* poster_contributions of process_contributions
    other,          \* other_contributions of process_contributions
    i,              \* index of the contribution a loop is at (1-based)
    j,              \* index of the attachment the download loop is at; 0 before the progress line
    fetch_result,   \* what fetch_event_data returned in this run: "pending", "ok", "failed"
    gets,           \* number of GET requests issued for the event in this run
    calls,          \* the download_attachment calls of this run, in order
    progress,       \* the progress lines logged by _process_contribution_list in this run
    exports,        \* the export files written by this run: file name -> content
    sf_pc,          \* safe_filename harness: "idle", "input", "once", "twice"
    sf_in,          \* safe_filename harness: the input string
    sf_out,         \* safe_filename harness: safe_filename(sf_in)
    sf_twice,       \* safe_filename harness: safe_filename(safe_filename(sf_in))
    pp_pc,          \* parse_contribution harness: "idle", "input", "done"
    pp_in,          \* parse_contribution harness: the raw record
    pp_out          \* parse_contribution harness: [raised, value] of parse_contribution(pp_in)

runVars == <<pc, stats, contributions, oral, poster, other, i, j, fetch_result,
             gets, calls, progress, exports>>
sfVars == <<sf_pc, sf_in, sf_out, sf_twice>>
ppVars == <<pp_pc, pp_in, pp_out>>
vars == <<server, fs, runVars, sfVars, ppVars>>

-----------------------------------------------------------------------------
(* Python values *)

NoneStr == <<"None">>
NoneObj == [none |-> TRUE]

\* dict.get(k, default)
Get(d, k, default) == IF k \in DOMAIN d THEN d[k] ELSE default

\* truthiness of a str-or-None value (None and '' are falsy)
Truthy(s) == s # NoneStr /\ s # <<>>

Max(S) == CHOOSE x \in S : \A y \in S : y <= x

-----------------------------------------------------------------------------
(* safe_filename *)

MaxLength == 180

Unknown == <<"u", "n", "k", "n", "o", "w", "n">>

\* the character class [<>:"/\\|?*\r\n]
Forbidden == {"<", ">", ":", "\"", "/", "\\", "|", "?", "*", "\r", "\n"}

\* the characters \s matches
Whitespace == {" ", "\t", "\n", "\r", "\f"}

\* the characters strip(' ._') removes
StripChars == {" ", ".", "_"}

\* re.sub(r'[<>:"/\\|?*\r\n]', '_', filename)
SubForbidden(s) == [k \in 1..Len(s) |-> IF s[k] \in Forbidden THEN "_" ELSE s[k]]

\* re.sub(r'\s+', ' ', filename): every maximal run of whitespace becomes one space
CollapseWhitespace(s) ==
    LET marked == [k \in 1..Len(s) |->
                      [char |-> IF s[k] \in Whitespace THEN " " ELSE s[k],
                       inside |-> s[k] \in Whitespace /\ k > 1 /\ s[k-1] \in Whitespace]]
        StartsRun(m) == ~m.inside
        kept == SelectSeq(marked, StartsRun)
    IN [k \in 1..Len(kept) |-> kept[k].char]

\* filename.strip(' ._')
RECURSIVE StripLeft(_)
StripLeft(s) == IF s # <<>> /\ Head(s) \in StripChars THEN StripLeft(Tail(s)) ELSE s

RECURSIVE StripRight(_)
StripRight(s) ==
    IF s # <<>> /\ s[Len(s)] \in StripChars THEN StripRight(SubSeq(s, 1, Len(s) - 1)) ELSE s

Strip(s) == StripRight(StripLeft(s))

\* filename[:max_length].rsplit(' ', 1)[0] when len(filename) > max_length
TruncateNever(s, max_length) == s

Truncate(s, max_length) ==
    IF Len(s) > max_length
    THEN LET head == SubSeq(s, 1, max_length)
             spaces == {k \in 1..Len(head) : head[k] = " "}
         IN IF spaces = {} THEN head ELSE SubSeq(head, 1, Max(spaces) - 1)
    ELSE s

\* filename or "unknown"
OrUnknown(s) == IF s = <<>> THEN Unknown ELSE s

safe_filename(filename, max_length) ==
    IF ~Truthy(filename) THEN Unknown
    ELSE OrUnknown(Truncate(Strip(CollapseWhitespace(SubForbidden(filename))), max_length))

-----------------------------------------------------------------------------
(* The safe_filename harness: inputs are a short head, a run of "a" padding *)
(* that brings the length up to the maximum, and a short tail.              *)

MaxTail == 3

SfAlphabet == {"a", " ", ".", "_", "/", "\t"}

RECURSIVE SeqsUpTo(_, _)
SeqsUpTo(S, n) ==
    IF n = 0 THEN {<<>>}
    ELSE LET shorter == SeqsUpTo(S, n - 1)
         IN shorter \cup {Append(s, c) : s \in {t \in shorter : Len(t) = n - 1}, c \in S}

Pad(n) == [k \in 1..n |-> "a"]

SfPads == {0} \cup ((MaxLength - MaxTail)..MaxLength)

SfInputs ==
    {NoneStr} \cup
    {h \o Pad(n) \o t : h \in {<<>>, <<"a", " ">>, <<"a", ".", " ">>}, n \in SfPads,
                        t \in SeqsUpTo(SfAlphabet, MaxTail)}

SfIdle == sf_pc = "idle" /\ sf_in = <<>> /\ sf_out = <<>> /\ sf_twice = <<>>

PpIdle == pp_pc = "idle" /\ pp_in = <<>> /\ pp_out = <<>>

ApplySafeFilename ==
    /\ sf_pc = "input"
    /\ sf_out' = safe_filename(sf_in, MaxLength)
    /\ sf_pc' = "once"
    /\ UNCHANGED <<sf_in, sf_twice>>

ApplySafeFilenameAgain ==
    /\ sf_pc = "once"
    /\ sf_twice' = safe_filename(sf_out, MaxLength)
    /\ sf_pc' = "twice"
    /\ UNCHANGED <<sf_in, sf_out>>

-----------------------------------------------------------------------------
(* parse_contribution *)

\* for person in contrib.get(key, []): {'name': person.get('fullName', ''), ...}
Persons(contrib, key) ==
    LET raw == Get(contrib, key, <<>>)
    IN [k \in 1..Len(raw) |->
          [name        |-> Get(raw[k], "fullName", <<>>),
           first_name  |-> Get(raw[k], "first_name", <<>>),
           last_name   |-> Get(raw[k], "last_name", <<>>),
           affiliation |-> Get(raw[k], "affiliation", <<>>),
           id          |-> Get(raw[k], "id", <<>>)]]

\* one element of the attachments list built in the inner loop
ParseAttachment(attachment) ==
    [id           |-> Get(attachment, "id", <<>>),
     title        |-> Get(attachment, "title", <<>>),
     filename     |-> Get(attachment, "filename", <<>>),
     download_url |-> Get(attachment, "download_url", <<>>),
     content_type |-> Get(attachment, "content_type", <<>>),
     size         |-> Get(attachment, "size", 0),
     modified_dt  |-> Get(attachment, "modified_dt", <<>>),
     is_protected |-> Get(attachment, "is_protected", FALSE)]

\* the raw attachments of all folders, folder by folder
RECURSIVE FlattenFolders(_)
FlattenFolders(folders) ==
    IF folders = <<>> THEN <<>>
    ELSE Get(Head(folders), "attachments", <<>>) \o FlattenFolders(Tail(folders))

RawAttachments(contrib) == FlattenFolders(Get(contrib, "folders", <<>>))

\* contrib.get('startDate') or {}
DateObj(contrib, key) ==
    LET o == Get(contrib, key, NoneObj) IN IF o = NoneObj THEN <<>> ELSE o

\* str(contrib.get(key, '')) if contrib.get(key) else ''   (str of a str is that str)
StrOrEmptyUnguarded(contrib, key) == Get(contrib, key, NoneStr)

StrOrEmpty(contrib, key) ==
    IF Truthy(Get(contrib, key, NoneStr)) THEN contrib[key] ELSE <<>>

PersonKeys == {"speakers", "primaryauthors", "coauthors"}

\* contrib.get(...), speaker.get(...), folder.get(...), attachment.get(...) on a
\* value that is None raises AttributeError
ParseRaisesNever(contrib) == FALSE

ParseRaises(contrib) ==
    \/ contrib = NoneObj
    \/ \E key \in PersonKeys :
         LET persons == Get(contrib, key, <<>>)
         IN \E k \in 1..Len(persons) : persons[k] = NoneObj
    \/ LET folders == Get(contrib, "folders", <<>>)
       IN \E f \in 1..Len(folders) :
            \/ folders[f] = NoneObj
            \/ LET atts == Get(folders[f], "attachments", <<>>)
               IN \E a \in 1..Len(atts) : atts[a] = NoneObj

parse_contribution(contrib) ==
    LET start_date_obj == DateObj(contrib, "startDate")
        end_date_obj   == DateObj(contrib, "endDate")
        raw_atts       == RawAttachments(contrib)
        attachments    == [k \in 1..Len(raw_atts) |-> ParseAttachment(raw_atts[k])]
    IN [id               |-> Get(contrib, "id", <<>>),
        db_id            |-> Get(contrib, "db_id", <<>>),
        friendly_id      |-> Get(contrib, "friendly_id", <<>>),
        title            |-> Get(contrib, "title", <<>>),
        type             |-> Get(contrib, "type", <<>>),
        description      |-> Get(contrib, "description", <<>>),
        start_date       |-> Get(start_date_obj, "date", <<>>),
        start_time       |-> Get(start_date_obj, "time", <<>>),
        end_date         |-> Get(end_date_obj, "date", <<>>),
        end_time         |-> Get(end_date_obj, "time", <<>>),
        duration         |-> Get(contrib, "duration", 0),
        location         |-> Get(contrib, "location", <<>>),
        room             |-> Get(contrib, "room", <<>>),
        url              |-> Get(contrib, "url", <<>>),
        session          |-> StrOrEmpty(contrib, "session"),
        track            |-> StrOrEmpty(contrib, "track"),
        board_number     |-> Get(contrib, "board_number", <<>>),
        code             |-> Get(contrib, "code", <<>>),
        speakers         |-> Persons(contrib, "speakers"),
        primary_authors  |-> Persons(contrib, "primaryauthors"),
        coauthors        |-> Persons(contrib, "coauthors"),
        attachments      |-> attachments,
        attachment_count |-> Len(attachments),
        keywords         |-> Get(contrib, "keywords", <<>>)]

-----------------------------------------------------------------------------
(* classification (process_contributions) *)

LowerMap ==
    [A |-> "a", B |-> "b", C |-> "c", D |-> "d", E |-> "e", F |-> "f", G |-> "g",
     H |-> "h", I |-> "i", J |-> "j", K |-> "k", L |-> "l", M |-> "m", N |-> "n",
     O |-> "o", P |-> "p", Q |-> "q", R |-> "r", S |-> "s", T |-> "t", U |-> "u",
     V |-> "v", W |-> "w", X |-> "x", Y |-> "y", Z |-> "z"]

\* str.lower()
Lower(s) == [k \in 1..Len(s) |-> IF s[k] \in DOMAIN LowerMap THEN LowerMap[s[k]] ELSE s[k]]

\* sub in s
Contains(s, sub) ==
    \E k \in 1..(Len(s) - Len(sub) + 1) : SubSeq(s, k, k + Len(sub) - 1) = sub

\* contrib_type = (parsed.get('type') or '').lower()
ContribType(parsed) ==
    LET ty == Get(parsed, "type", NoneStr) IN Lower(IF Truthy(ty) THEN ty ELSE <<>>)

\* the if / elif / else of the classification loop
ClassifyPosterFirst(parsed) ==
    LET contrib_type == ContribType(parsed)
    IN IF Contains(contrib_type, <<"p", "o", "s", "t", "e", "r">>) THEN "poster"
       ELSE IF \/ Contains(contrib_type, <<"o", "r", "a", "l">>)
               \/ Contains(contrib_type, <<"t", "a", "l", "k">>) THEN "oral"
       ELSE "other"

Classify(parsed) ==
    LET contrib_type == ContribType(parsed)
    IN IF \/ Contains(contrib_type, <<"o", "r", "a", "l">>)
          \/ Contains(contrib_type, <<"t", "a", "l", "k">>) THEN "oral"
       ELSE IF Contains(contrib_type, <<"p", "o", "s", "t", "e", "r">>) THEN "poster"
       ELSE "other"

-----------------------------------------------------------------------------
(* The raw records the server may hold *)

MaxContribs == 2

TyOral       == <<"O", "r", "a", "l">>
TyTalkUpper  == <<"I", "n", "v", "i", "t", "e", "d", " ", "T", "A", "L", "K">>
TyPoster     == <<"P", "o", "s", "t", "e", "r">>
TyPosterTalk == <<"p", "o", "s", "t", "e", "r", " ", "t", "a", "l", "k">>
TyDemo       == <<"D", "e", "m", "o">>

TypeValues == {TyOral, TyTalkUpper, TyPoster, TyPosterTalk, TyDemo, <<>>, NoneStr}

Url1 == <<"u", "1">>
Url2 == <<"u", "2">>

Date1 == <<"1", "0", "/", "1", "3">>
Date2 == <<"1", "0", "-", "1", "3">>

\* contributions without attachments, one per value of type, and one without a type
RawTyped ==
    {[id |-> <<"7">>, friendly_id |-> <<"F", "1">>, title |-> <<"T">>, type |-> ty] :
        ty \in TypeValues}
    \cup {[id |-> <<"7">>, friendly_id |-> <<"F", "1">>, title |-> <<"T">>]}

\* no friendly_id; one attachment with a filename
RawOneFile ==
    [id |-> <<"8">>, title |-> <<"A", ":", "B">>, type |-> TyOral,
     startDate |-> [date |-> Date1, time |-> <<"9">>],
     speakers |-> <<[fullName |-> <<"J">>]>>,
     folders |-> <<[attachments |->
                      <<[filename |-> <<"a", ".", "p">>, title |-> <<"S">>,
                         download_url |-> Url1]>>]>>]

\* two attachments whose sanitized filenames are equal
RawCollide ==
    [id |-> <<"9">>, friendly_id |-> <<"F", "2">>, title |-> <<"T">>, type |-> TyPoster,
     startDate |-> [date |-> Date2],
     folders |-> <<[attachments |->
                      <<[filename |-> <<"a", ":", "b">>, download_url |-> Url1],
                        [filename |-> <<"a", "/", "b">>, download_url |-> Url2]>>]>>]

\* no type, no friendly_id; a folder without attachments, an attachment with a title
\* and no filename, an attachment with neither
RawNoName ==
    [id |-> <<"8">>, title |-> <<"T">>,
     folders |-> <<[title |-> <<"e">>],
                   [attachments |-> <<[title |-> <<"S">>, download_url |-> Url1]>>],
                   [attachments |-> <<[download_url |-> Url2]>>]>>]

RawPool == RawTyped \cup {RawOneFile, RawCollide, RawNoName, NoneObj}

ServerLists == SeqsUpTo(RawPool, MaxContribs)

-----------------------------------------------------------------------------
(* download_attachment *)

Categories == {"Oral_Presentations", "Posters", "Attachments"}

\* contrib_info.get('friendly_id', contrib_info.get('id', 'unknown'))
ContribId(contrib_info) ==
    Get(contrib_info, "friendly_id", Get(contrib_info, "id", Unknown))

\* f"{contrib_id} - {safe_title}"
FolderName(contrib_info) ==
    [contrib_id |-> ContribId(contrib_info),
     safe_title |-> safe_filename(contrib_info.title, MaxLength)]

\* attachment.get('filename', attachment.get('title', 'attachment'))
OriginalFilename(attachment) ==
    Get(attachment, "filename",
        Get(attachment, "title", <<"a", "t", "t", "a", "c", "h", "m", "e", "n", "t">>))

\* filepath = output_dir / category_folder / folder_name / safe_name
FilePath(attachment, contrib_info, category_folder) ==
    [category |-> category_folder,
     folder   |-> FolderName(contrib_info),
     name     |-> safe_filename(OriginalFilename(attachment), MaxLength)]

\* filepath.exists()
FileExistsNever(path) == FALSE

FileExists(path) == path \in DOMAIN fs

\* what can happen to one request: the body arrives whole, session.get or
\* raise_for_status raises, or iter_content raises after the file was opened.
\* requests refuses an empty URL (MissingSchema) before anything is sent.
Outcomes(download_url) ==
    IF download_url = <<>> THEN {"request_error"}
    ELSE {"ok", "request_error", "stream_error"}

\* the counters after a download that was not skipped
StatsAfterDownloadBoth(st, outcome) ==
    IF outcome = "ok" THEN [st EXCEPT !.downloaded_files = @ + 1]
    ELSE [st EXCEPT !.errors = @ + 1, !.downloaded_files = @ + 1]

StatsAfterDownloadUncounted(st, outcome) ==
    IF outcome = "ok" THEN [st EXCEPT !.downloaded_files = @ + 1] ELSE st

StatsAfterDownload(st, outcome) ==
    IF outcome = "ok" THEN [st EXCEPT !.downloaded_files = @ + 1]
    ELSE [st EXCEPT !.errors = @ + 1]

\* the disk after a download that was not skipped: open(filepath, 'wb') creates or
\* truncates the file, and a failure while streaming leaves what was written
FsAfterDownloadCleanup(files, path, download_url, outcome) ==
    IF outcome = "ok" THEN (path :> [url |-> download_url, complete |-> TRUE]) @@ files
    ELSE files

FsAfterDownload(files, path, download_url, outcome) ==
    IF outcome = "request_error" THEN files
    ELSE (path :> [url |-> download_url, complete |-> (outcome = "ok")]) @@ files

-----------------------------------------------------------------------------
(* The run *)

InitStats ==
    [total_contributions |-> 0, oral_presentations |-> 0, posters |-> 0,
     downloaded_files |-> 0, errors |-> 0, sessions_processed |-> 0]

\* __init__
RunInit ==
    /\ pc = "run"
    /\ stats = InitStats
    /\ contributions = <<>>
    /\ oral = <<>>
    /\ poster = <<>>
    /\ other = <<>>
    /\ i = 1
    /\ j = 0
    /\ fetch_result = "pending"
    /\ gets = 0
    /\ calls = <<>>
    /\ progress = <<>>
    /\ exports = <<>>

Init ==
    /\ server \in ServerLists
    /\ fs = <<>>
    /\ RunInit
    /\ SfIdle
    /\ PpIdle

\* the answers of the server to the GET of fetch_event_data: a usable envelope; a
\* transport error, an HTTP error status or a body that is not JSON; count == 0;
\* no 'results' key; count > 0 with an empty results list
FetchResponses == {"ok", "error", "count_zero", "no_results", "empty_results"}

\* the responses that raise inside the try block (data['results'][0] raises IndexError)
FetchRaises(response) == response \in {"error", "empty_results"}

\* run(): if not self.fetch_event_data(): return False
RunAfterFetchNoAbort(ok) == "parse"

RunAfterFetch(ok) == IF ok THEN "parse" ELSE "returned_false"

fetch_event_data ==
    /\ pc = "run"
    /\ \E response \in FetchResponses :
         LET ok == response = "ok"
         IN /\ gets' = gets + 1
            /\ fetch_result' = IF ok THEN "ok" ELSE "failed"
            /\ contributions' = IF ok THEN server ELSE contributions
            /\ stats' = IF FetchRaises(response)
                        THEN [stats EXCEPT !.errors = @ + 1] ELSE stats
            /\ pc' = RunAfterFetch(ok)
    /\ UNCHANGED <<server, fs, oral, poster, other, i, j, calls, progress, exports, sfVars, ppVars>>

\* one iteration of the loop of process_contributions; an exception leaves the loop,
\* is logged and re-raised, and run() logs and re-raises it
ParseContribution ==
    /\ pc = "parse"
    /\ i <= Len(contributions)
    /\ IF ParseRaises(contributions[i])
       THEN /\ pc' = "raised"
            /\ UNCHANGED <<stats, oral, poster, other, i>>
       ELSE LET parsed == parse_contribution(contributions[i])
                category == Classify(parsed)
            IN /\ oral' = IF category = "oral" THEN Append(oral, parsed) ELSE oral
               /\ poster' = IF category = "poster" THEN Append(poster, parsed) ELSE poster
               /\ other' = IF category = "other" THEN Append(other, parsed) ELSE other
               /\ stats' = [stats EXCEPT
                              !.oral_presentations = IF category = "oral" THEN @ + 1 ELSE @,
                              !.posters = IF category = "poster" THEN @ + 1 ELSE @,
                              !.total_contributions = @ + 1]
               /\ i' = i + 1
               /\ pc' = pc
    /\ UNCHANGED <<server, fs, contributions, j, fetch_result, gets, calls, progress,
                   exports, sfVars, ppVars>>

\* the loop ends; _process_contribution_list(oral_contributions, ...) starts
ClassifyDone ==
    /\ pc = "parse"
    /\ i > Len(contributions)
    /\ pc' = "Oral_Presentations"
    /\ i' = 1
    /\ j' = 0
    /\ UNCHANGED <<server, fs, stats, contributions, oral, poster, other, fetch_result,
                   gets, calls, progress, exports, sfVars, ppVars>>

ContribList(category_folder) ==
    CASE category_folder = "Oral_Presentations" -> oral
      [] category_folder = "Posters" -> poster
      [] category_folder = "Attachments" -> other

\* the order of the three _process_contribution_list calls, then the exports
AfterListPostersLast(category_folder) ==
    CASE category_folder = "Oral_Presentations" -> "Attachments"
      [] category_folder = "Attachments" -> "Posters"
      [] category_folder = "Posters" -> "save_all"

AfterList(category_folder) ==
    CASE category_folder = "Oral_Presentations" -> "Posters"
      [] category_folder = "Posters" -> "Attachments"
      [] category_folder = "Attachments" -> "save_all"

\* contrib.get('friendly_id', contrib.get('id', 'unknown')) of the progress line
ProgressContribId(contrib) == Get(contrib, "friendly_id", Get(contrib, "id", Unknown))

\* contrib['title'][:60] + '...' if len(contrib['title']) > 60 else contrib['title']
ProgressTitle(contrib) ==
    IF Len(contrib.title) > 60 THEN SubSeq(contrib.title, 1, 60) \o <<".", ".", ".">>
    ELSE contrib.title

\* the head of the outer loop body: the progress line of contribution i
BeginContribution ==
    /\ pc \in Categories
    /\ i <= Len(ContribList(pc))
    /\ j = 0
    /\ LET contrib == ContribList(pc)[i]
       IN /\ progress' = Append(progress,
                [category |-> pc, index |-> i, total |-> Len(ContribList(pc)),
                 contrib_id |-> ProgressContribId(contrib),
                 title |-> ProgressTitle(contrib), contrib |-> contrib])
          /\ IF Len(Get(contrib, "attachments", <<>>)) = 0
             THEN i' = i + 1 /\ j' = 0
             ELSE i' = i /\ j' = 1
    /\ UNCHANGED <<server, fs, pc, stats, contributions, oral, poster, other,
                   fetch_result, gets, calls, exports, sfVars, ppVars>>

\* one iteration of the inner loop: download_attachment(attachment, contrib, category_folder)
download_attachment ==
    /\ pc \in Categories
    /\ i <= Len(ContribList(pc))
    /\ j >= 1
    /\ LET contrib == ContribList(pc)[i]
           attachment == contrib.attachments[j]
           download_url == attachment.download_url
           path == FilePath(attachment, contrib, pc)
           skip == FileExists(path)
       IN \E outcome \in Outcomes(download_url) :
            /\ fs' = IF skip THEN fs ELSE FsAfterDownload(fs, path, download_url, outcome)
            /\ stats' = IF skip THEN stats ELSE StatsAfterDownload(stats, outcome)
            /\ calls' = Append(calls,
                  [category |-> pc, index |-> i, att |-> j, contrib |-> contrib,
                   attachment |-> attachment, path |-> path,
                   existed |-> path \in DOMAIN fs,
                   requested |-> ~skip,
                   outcome |-> IF skip THEN "skipped" ELSE outcome,
                   result |-> (skip \/ outcome = "ok")])
            /\ IF j = Len(contrib.attachments)
               THEN i' = i + 1 /\ j' = 0
               ELSE i' = i /\ j' = j + 1
    /\ UNCHANGED <<server, pc, contributions, oral, poster, other, fetch_result, gets,
                   progress, exports, sfVars, ppVars>>

\* the outer loop of _process_contribution_list ends
EndContributionList ==
    /\ pc \in Categories
    /\ i > Len(ContribList(pc))
    /\ pc' = AfterList(pc)
    /\ i' = 1
    /\ j' = 0
    /\ UNCHANGED <<server, fs, stats, contributions, oral, poster, other, fetch_result,
                   gets, calls, progress, exports, sfVars, ppVars>>

-----------------------------------------------------------------------------
(* The exporters.  An export file is named by its directory under the output *)
(* root, the date directory under By_Date, and its kind.  Event metadata and *)
(* the wall-clock time of the export are left out of the contents.           *)

TopFile(kind) == [dir |-> "", date |-> <<>>, kind |-> kind]
DateFile(date_str, kind) == [dir |-> "By_Date", date |-> date_str, kind |-> kind]

\* contrib.get('friendly_id', contrib.get('id', 'N/A')) of the block header
SummaryContribId(contrib) ==
    Get(contrib, "friendly_id", Get(contrib, "id", <<"N", "/", "A">>))

\* the blocks _write_contribution_summary writes for a list, numbered from 1
SummaryBlocks(list) ==
    [k \in 1..Len(list) |->
        [index |-> k, contrib_id |-> SummaryContribId(list[k]),
         title |-> list[k].title, contrib |-> list[k]]]

\* the rows of save_contributions_csv (the columns taken over by get)
CsvRows(list) ==
    [k \in 1..Len(list) |->
        [id |-> Get(list[k], "id", <<>>), friendly_id |-> Get(list[k], "friendly_id", <<>>),
         title |-> Get(list[k], "title", <<>>), type |-> Get(list[k], "type", <<>>),
         start_date |-> Get(list[k], "start_date", <<>>),
         attachment_count |-> Get(list[k], "attachment_count", 0)]]

\* save_all_contributions_data: the JSON document, then the CSV, then the text summary
save_all_contributions_data ==
    /\ pc = "save_all"
    /\ exports' =
         (TopFile("json") :>
             [statistics |-> [total_contributions |-> Len(oral) + Len(poster) + Len(other),
                              oral_presentations |-> Len(oral), posters |-> Len(poster),
                              others |-> Len(other)],
              contributions |-> [oral_presentations |-> oral, posters |-> poster,
                                 others |-> other]])
         @@ (TopFile("csv") :> CsvRows(oral \o poster \o other))
         @@ (TopFile("summary") :>
             [total_contributions |-> Len(oral) + Len(poster) + Len(other),
              oral_presentations |-> Len(oral), posters |-> Len(poster),
              others |-> Len(other),
              downloaded_files |-> stats.downloaded_files, errors |-> stats.errors,
              oral_blocks |-> SummaryBlocks(oral), poster_blocks |-> SummaryBlocks(poster),
              other_blocks |-> SummaryBlocks(other)])
         @@ exports
    /\ pc' = "save_by_date"
    /\ UNCHANGED <<server, fs, stats, contributions, oral, poster, other, i, j,
                   fetch_result, gets, calls, progress, sfVars, ppVars>>

UnknownDate == <<"U", "n", "k", "n", "o", "w", "n">>

\* date = contrib.get('start_date', 'Unknown')
DateOf(contrib) == Get(contrib, "start_date", UnknownDate)

\* by_date[date]: the contributions of that date, in list order
DateBucket(list, date) ==
    LET OnDate(contrib) == DateOf(contrib) = date IN SelectSeq(list, OnDate)

\* by_date after the grouping loop: date -> the contributions appended under it
ByDate(list) ==
    [date \in {DateOf(list[k]) : k \in 1..Len(list)} |-> DateBucket(list, date)]

\* date.replace('/', '-')
ReplaceSlash(date) == [k \in 1..Len(date) |-> IF date[k] = "/" THEN "-" ELSE date[k]]

\* the code points of the characters dates are written with
CodePoint ==
    ("-" :> 45) @@ ("/" :> 47) @@ ("0" :> 48) @@ ("1" :> 49) @@ ("2" :> 50) @@
    ("3" :> 51) @@ ("4" :> 52) @@ ("5" :> 53) @@ ("6" :> 54) @@ ("7" :> 55) @@
    ("8" :> 56) @@ ("9" :> 57)

\* a < b for str
StrLess(a, b) ==
    \E k \in 1..(Len(b)) :
        /\ \A m \in 1..(k - 1) : m <= Len(a) /\ a[m] = b[m]
        /\ \/ k = Len(a) + 1
           \/ k <= Len(a) /\ CodePoint[a[k]] < CodePoint[b[k]]

\* save_by_date: the buckets are written in sorted(by_date.items()) order, so of the
\* dates that share a directory name the greatest is the one whose files remain
save_by_date ==
    /\ pc = "save_by_date"
    /\ LET all == oral \o poster \o other
           by_date == ByDate(all)
           dates == DOMAIN by_date
           dirs == {ReplaceSlash(d) : d \in dates}
           last(date_str) ==
               CHOOSE d \in dates :
                   /\ ReplaceSlash(d) = date_str
                   /\ \A e \in dates : ReplaceSlash(e) = date_str /\ e # d => StrLess(e, d)
           files == {DateFile(ds, kind) : ds \in dirs, kind \in {"json", "summary"}}
           content(f) ==
               LET date == last(f.date)
                   date_contribs == by_date[date]
               IN IF f.kind = "json"
                  THEN [date |-> date, count |-> Len(date_contribs),
                        contributions |-> date_contribs]
                  ELSE [date |-> date, total |-> Len(date_contribs),
                        blocks |-> SummaryBlocks(date_contribs)]
       IN exports' = [f \in files |-> content(f)] @@ exports
    /\ pc' = "finish"
    /\ UNCHANGED <<server, fs, stats, contributions, oral, poster, other, i, j,
                   fetch_result, gets, calls, progress, sfVars, ppVars>>

\* run(): the final statistics are logged and True is returned
RunReturn ==
    /\ pc = "finish"
    /\ pc' = "returned_true"
    /\ UNCHANGED <<server, fs, stats, contributions, oral, poster, other, i, j,
                   fetch_result, gets, calls, progress, exports, sfVars, ppVars>>

Terminal == {"returned_true", "returned_false", "raised"}

\* the program is started again on the same output directory: a new scraper is
\* constructed, the attachment files of the earlier run are still on disk
Restart ==
    /\ pc \in Terminal
    /\ pc' = "run"
    /\ stats' = InitStats
    /\ contributions' = <<>>
    /\ oral' = <<>>
    /\ poster' = <<>>
    /\ other' = <<>>
    /\ i' = 1
    /\ j' = 0
    /\ fetch_result' = "pending"
    /\ gets' = 0
    /\ calls' = <<>>
    /\ progress' = <<>>
    /\ exports' = <<>>
    /\ UNCHANGED <<server, fs, sfVars, ppVars>>

Next ==
    \/ fetch_event_data
    \/ ParseContribution
    \/ ClassifyDone
    \/ BeginContribution
    \/ download_attachment
    \/ EndContributionList
    \/ save_all_contributions_data
    \/ save_by_date
    \/ RunReturn
    \/ Restart

Spec == Init /\ [][Next]_vars

-----------------------------------------------------------------------------
(* safe_filename on its own: the input is drawn, then sanitized once and twice *)

InitSafe ==
    /\ server = <<>>
    /\ fs = <<>>
    /\ RunInit
    /\ sf_pc = "input"
    /\ sf_in \in SfInputs
    /\ sf_out = <<>>
    /\ sf_twice = <<>>
    /\ PpIdle

NextSafe ==
    \/ ApplySafeFilename /\ UNCHANGED <<server, fs, runVars, ppVars>>
    \/ ApplySafeFilenameAgain /\ UNCHANGED <<server, fs, runVars, ppVars>>

SpecSafe == InitSafe /\ [][NextSafe]_vars

-----------------------------------------------------------------------------
(* parse_contribution on its own: a raw record is drawn, then parsed *)

MaxAbsent == 2
MaxPresent == 2

RECURSIVE SubsetsUpTo(_, _)
SubsetsUpTo(S, n) ==
    IF n = 0 THEN {{}}
    ELSE LET smaller == SubsetsUpTo(S, n - 1)
         IN smaller \cup {T \cup {x} : T \in smaller, x \in S}

Restrict(rec, keys) == [k \in keys |-> rec[k]]

PersonFull ==
    [fullName |-> <<"N">>, first_name |-> <<"f">>, last_name |-> <<"l">>,
     affiliation |-> <<"a">>, id |-> <<"p">>]

AttachmentFull ==
    [id |-> <<"1">>, title |-> <<"s">>, filename |-> <<"a", ".", "p">>,
     download_url |-> Url1, content_type |-> <<"c">>, size |-> 3,
     modified_dt |-> <<"m">>, is_protected |-> TRUE]

DateFull == [date |-> Date1, time |-> <<"9">>, tz |-> <<"U">>]

RawFull ==
    [id |-> <<"7">>, db_id |-> <<"4">>, friendly_id |-> <<"F", "1">>, title |-> <<"T">>,
     type |-> TyOral, description |-> <<"d">>, startDate |-> DateFull,
     endDate |-> DateFull, duration |-> 5, location |-> <<"l">>, room |-> <<"r">>,
     url |-> <<"u">>, session |-> <<"s">>, track |-> <<"k">>,
     board_number |-> <<"b">>, code |-> <<"c">>, speakers |-> <<PersonFull>>,
     primaryauthors |-> <<PersonFull>>, coauthors |-> <<PersonFull>>,
     folders |-> <<[id |-> <<"2">>, attachments |-> <<AttachmentFull>>]>>,
     keywords |-> <<<<"w">>>>]

PpTopLevel ==
    {Restrict(RawFull, DOMAIN RawFull \ M) : M \in SubsetsUpTo(DOMAIN RawFull, MaxAbsent)}
    \cup {Restrict(RawFull, K) : K \in SubsetsUpTo(DOMAIN RawFull, MaxPresent) \ {{}}}

PpNested ==
    {[RawFull EXCEPT ![key] = <<PersonFull, Restrict(PersonFull, K)>>] :
        key \in PersonKeys, K \in SUBSET (DOMAIN PersonFull) \ {{}}}
    \cup {[RawFull EXCEPT !.folders = <<[attachments |-> <<Restrict(AttachmentFull, K)>>]>>] :
        K \in SUBSET (DOMAIN AttachmentFull) \ {{}}}
    \cup {[RawFull EXCEPT !.folders = <<[id |-> <<"2">>], [attachments |-> <<AttachmentFull>>]>>]}
    \cup {[RawFull EXCEPT ![key] = d] :
        key \in {"startDate", "endDate"},
        d \in {NoneObj, [date |-> Date1], [time |-> <<"9">>], [tz |-> <<"U">>]}}

PpNull ==
    {NoneObj}
    \cup {[RawFull EXCEPT ![key] = <<PersonFull, NoneObj>>] : key \in PersonKeys}
    \cup {[RawFull EXCEPT !.folders = <<NoneObj>>],
          [RawFull EXCEPT !.folders = <<[attachments |-> <<NoneObj>>]>>]}

PpInputs == PpTopLevel \cup PpNested \cup PpNull

ApplyParseContribution ==
    /\ pp_pc = "input"
    /\ pp_out' = IF ParseRaises(pp_in)
                 THEN [raised |-> TRUE]
                 ELSE [raised |-> FALSE, value |-> parse_contribution(pp_in)]
    /\ pp_pc' = "done"
    /\ UNCHANGED pp_in

InitParse ==
    /\ server = <<>>
    /\ fs = <<>>
    /\ RunInit
    /\ SfIdle
    /\ pp_pc = "input"
    /\ pp_in \in PpInputs
    /\ pp_out = <<>>

NextParse == ApplyParseContribution /\ UNCHANGED <<server, fs, runVars, sfVars>>

SpecParse == InitParse /\ [][NextParse]_vars

-----------------------------------------------------------------------------
(* Properties *)

TopFiles == {TopFile("json"), TopFile("csv"), TopFile("summary")}

C2_EveryFailedFetchCounted ==
    fetch_result = "failed" => stats.errors = 1

\* C3: a download that fails returns False, adds exactly one to stats['errors'],
\* leaves stats['downloaded_files'] alone and leaves the run inside
\* _process_contribution_list; an exception never leaves the download loops; and a
\* run that returns True has attempted every attachment of every contribution of
\* the three lists exactly once and has written the exports.
C3_FailedDownloadDoesNotAbort ==
    /\ [][(Len(calls') = Len(calls) + 1 /\ ~calls'[Len(calls')].result) =>
            /\ stats'.errors = stats.errors + 1
            /\ stats'.downloaded_files = stats.downloaded_files
            /\ pc' = pc
            /\ pc' \in Categories]_vars
    /\ [](pc = "raised" => calls = <<>>)
    /\ [](pc = "returned_true" =>
            /\ \A c \in Categories : \A k \in 1..Len(ContribList(c)) :
                 \A m \in 1..Len(ContribList(c)[k].attachments) :
                    Cardinality({n \in 1..Len(calls) :
                        /\ calls[n].category = c
                        /\ calls[n].index = k
                        /\ calls[n].att = m
                        /\ calls[n].attachment = ContribList(c)[k].attachments[m]}) = 1
            /\ TopFiles \subseteq DOMAIN exports
            /\ (oral \o poster \o other # <<>>) =>
                  \E f \in DOMAIN exports : f.dir = "By_Date")

\* a run that returned True although a download failed, with a later download after
\* the failed one and the failure counted in the text summary
C3_Witness ==
    /\ pc = "returned_true"
    /\ \E n \in 1..Len(calls) :
         /\ ~calls[n].result
         /\ n < Len(calls)
         /\ calls[n + 1].requested
    /\ TopFile("summary") \in DOMAIN exports
    /\ exports[TopFile("summary")].errors >= 1

\* C4 (as claimed): a failure while parsing one contribution is counted in
\* stats['errors'] and the loop goes on with the next contribution.
C4_ParseFailureCountedAndContinues ==
    [][(pc = "parse" /\ i <= Len(contributions) /\ contributions[i] = NoneObj) =>
          /\ stats'.errors = stats.errors + 1
          /\ pc' = "parse"
          /\ i' = i + 1]_vars

\* C4 (amended): a failure while parsing one contribution is logged and re-raised
\* out of process_contributions and out of run(): it is not counted in
\* stats['errors'], no later contribution is parsed, no attachment download is
\* attempted and no export file is written.
C4_ParseFailureAbortsRun ==
    /\ [][(pc = "parse" /\ i <= Len(contributions) /\ contributions[i] = NoneObj) =>
            /\ pc' = "raised"
            /\ stats' = stats
            /\ oral' = oral /\ poster' = poster /\ other' = other]_vars
    /\ [](pc = "raised" =>
            /\ i <= Len(contributions)
            /\ contributions[i] = NoneObj
            /\ stats.errors = 0
            /\ stats.total_contributions = i - 1
            /\ Len(oral) + Len(poster) + Len(other) = i - 1
            /\ calls = <<>> /\ progress = <<>>
            /\ DOMAIN exports = {})
    /\ [][pc = "raised" => pc' \in {"raised", "run"}]_vars

\* the second contribution failed to parse after the first was classified
C4_Witness ==
    /\ pc = "raised"
    /\ i = 2
    /\ stats.total_contributions = 1
    /\ Len(contributions) = 2

\* C5: a file that exists is never changed or removed, and a download_attachment
\* call that finds a file at its target path returns True without a request.
C5_NeverOverwrites ==
    /\ [][\A p \in DOMAIN fs : p \in DOMAIN fs' /\ fs'[p] = fs[p]]_vars
    /\ [](\A n \in 1..Len(calls) :
            calls[n].existed => calls[n].result /\ ~calls[n].requested)

\* two attachments of one contribution with the same target path: the first was
\* written, the second was skipped and the file still holds the first one's content
C5_Witness ==
    \E n \in 1..Len(calls) : \E m \in 1..(n - 1) :
        /\ calls[m].category = calls[n].category
        /\ calls[m].index = calls[n].index
        /\ calls[m].att # calls[n].att
        /\ calls[m].path = calls[n].path
        /\ calls[m].attachment.download_url # calls[n].attachment.download_url
        /\ ~calls[m].existed
        /\ calls[n].existed /\ calls[n].result /\ ~calls[n].requested
        /\ fs[calls[n].path].url = calls[m].attachment.download_url

\* the category each type value of the raw records belongs to, by the rule
\* "contains oral or talk -> oral; else contains poster -> poster; else other"
C6_Category(type) ==
    IF type \in {TyOral, TyTalkUpper, TyPosterTalk} THEN "oral"
    ELSE IF type = TyPoster THEN "poster"
    ELSE "other"

\* C6: the three lists are a stable partition of the contributions parsed so far:
\* each list is the subsequence, in fetch order, of the parsed contributions whose
\* type belongs to its category.
C6_StablePartition ==
    LET n == stats.total_contributions
        parsed == [k \in 1..n |-> parse_contribution(contributions[k])]
        IsOral(c) == C6_Category(c.type) = "oral"
        IsPoster(c) == C6_Category(c.type) = "poster"
        IsOther(c) == C6_Category(c.type) = "other"
    IN /\ n <= Len(contributions)
       /\ oral = SelectSeq(parsed, IsOral)
       /\ poster = SelectSeq(parsed, IsPoster)
       /\ other = SelectSeq(parsed, IsOther)
       /\ Len(oral) + Len(poster) + Len(other) = n
       /\ pc \in Categories \cup {"save_all", "save_by_date", "finish", "returned_true"}
            => n = Len(contributions)

\* classification is over; two different contributions are in the oral list in fetch
\* order, one by "talk" in a type that also contains "poster", one by upper case
C6_Witness ==
    /\ pc = "save_all"
    /\ Len(oral) = 2
    /\ oral[1].type = TyPosterTalk
    /\ oral[2].type = TyTalkUpper

\* C7 (as claimed): safe_filename(safe_filename(s)) = safe_filename(s) for every s.
C7_Idempotent ==
    sf_pc = "twice" => sf_twice = sf_out

\* C8: the output of safe_filename, for an absent, empty or any other input, holds no
\* forbidden character, is at most the maximum long and is not empty; an input that
\* is absent or empty, or made of nothing but forbidden characters, whitespace,
\* dots and underscores, gives "unknown".
C8_SafeOutput ==
    sf_pc \in {"once", "twice"} =>
        /\ \A k \in 1..Len(sf_out) : sf_out[k] \notin Forbidden
        /\ Len(sf_out) <= MaxLength
        /\ sf_out # <<>>
        /\ (\/ sf_in = NoneStr
            \/ \A k \in 1..Len(sf_in) :
                  sf_in[k] \in Forbidden \cup Whitespace \cup {".", "_"})
              => sf_out = Unknown

\* an input longer than the maximum, with a forbidden character, cut at a space
C8_Witness ==
    /\ sf_pc = "once"
    /\ sf_in # NoneStr
    /\ Len(sf_in) > MaxLength
    /\ \E k \in 1..Len(sf_in) : sf_in[k] \in Forbidden
    /\ Len(sf_out) < MaxLength
    /\ Len(sf_out) > 1

\* the identifier the claim expects for a raw record
C9_ExpectedId(raw) ==
    IF "friendly_id" \in DOMAIN raw THEN raw.friendly_id ELSE raw.id

\* C9 (as claimed): the attachment folder name, the progress line and the block
\* header of the text summary use the friendly_id of a contribution whose raw
\* record has one, and its id when the raw record has none.
C9_FriendlyIdFallbackEverywhere ==
    \A r \in 1..Len(contributions) :
        contributions[r] # NoneObj =>
            LET raw == contributions[r]
                parsed == parse_contribution(raw)
                blocks == IF TopFile("summary") \in DOMAIN exports
                          THEN exports[TopFile("summary")].oral_blocks
                               \o exports[TopFile("summary")].poster_blocks
                               \o exports[TopFile("summary")].other_blocks
                          ELSE <<>>
            IN /\ \A n \in 1..Len(calls) :
                    calls[n].contrib = parsed =>
                        calls[n].path.folder.contrib_id = C9_ExpectedId(raw)
               /\ \A n \in 1..Len(progress) :
                    progress[n].contrib = parsed =>
                        progress[n].contrib_id = C9_ExpectedId(raw)
               /\ \A n \in 1..Len(blocks) :
                    blocks[n].contrib = parsed =>
                        blocks[n].contrib_id = C9_ExpectedId(raw)

\* the file name the claim expects for a raw attachment
C10_ExpectedName(raw_attachment) ==
    IF "filename" \in DOMAIN raw_attachment
    THEN safe_filename(raw_attachment.filename, MaxLength)
    ELSE IF "title" \in DOMAIN raw_attachment
    THEN safe_filename(raw_attachment.title, MaxLength)
    ELSE <<"a", "t", "t", "a", "c", "h", "m", "e", "n", "t">>

\* C10 (as claimed): the target file of an attachment is named by its sanitized
\* filename, by its sanitized title when the raw attachment has no filename, and
\* "attachment" when it has neither.
C10_TargetNameFallback ==
    \A r \in 1..Len(contributions) :
        contributions[r] # NoneObj =>
            LET raw == contributions[r]
                parsed == parse_contribution(raw)
                raw_atts == RawAttachments(raw)
            IN \A n \in 1..Len(calls) :
                  calls[n].contrib = parsed =>
                      calls[n].path.name = C10_ExpectedName(raw_atts[calls[n].att])

\* the bucket the claim expects for a raw record
C11_ExpectedDate(raw) ==
    IF /\ "startDate" \in DOMAIN raw
       /\ raw.startDate # NoneObj
       /\ "date" \in DOMAIN raw.startDate
       /\ raw.startDate.date # <<>>
    THEN raw.startDate.date
    ELSE UnknownDate

RECURSIVE C11_SumOfCounts(_, _)
C11_SumOfCounts(by_date, dates) ==
    IF dates = {} THEN 0
    ELSE LET d == CHOOSE x \in dates : TRUE
         IN Len(by_date[d]) + C11_SumOfCounts(by_date, dates \ {d})

\* C11 (as claimed): save_by_date puts every contribution in exactly one date
\* bucket, the one of its start_date, so that the bucket counts sum to the number
\* of contributions; a contribution without a start_date is in the bucket "Unknown".
C11_DateBuckets ==
    pc \in {"finish", "returned_true"} =>
        LET all == oral \o poster \o other
            by_date == ByDate(all)
        IN /\ C11_SumOfCounts(by_date, DOMAIN by_date) = Len(all)
           /\ \A r \in 1..Len(contributions) :
                LET parsed == parse_contribution(contributions[r])
                    date == C11_ExpectedDate(contributions[r])
                IN /\ date \in DOMAIN by_date
                   /\ \E k \in 1..Len(by_date[date]) : by_date[date][k] = parsed
                   /\ \A d \in DOMAIN by_date \ {date} :
                        \A k \in 1..Len(by_date[d]) : by_date[d][k] # parsed

\* the parsed fields filled from a raw key
C12_ParsedFields(key) ==
    CASE key = "startDate" -> {"start_date", "start_time"}
      [] key = "endDate" -> {"end_date", "end_time"}
      [] key = "primaryauthors" -> {"primary_authors"}
      [] key = "folders" -> {"attachments", "attachment_count"}
      [] OTHER -> {key}

\* empty string, zero or empty list
C12_Default(field) == IF field \in {"duration", "attachment_count"} THEN 0 ELSE <<>>

C12_PersonField(sub) == IF sub = "fullName" THEN "name" ELSE sub

C12_AttachmentDefault(sub) ==
    IF sub = "size" THEN 0 ELSE IF sub = "is_protected" THEN FALSE ELSE <<>>

\* the record and every element of its lists are objects: fields are absent, none is null
C12_FieldsOnlyAbsent(raw) ==
    /\ raw # NoneObj
    /\ \A key \in PersonKeys \cap DOMAIN raw : \A k \in 1..Len(raw[key]) : raw[key][k] # NoneObj
    /\ "folders" \in DOMAIN raw =>
         \A f \in 1..Len(raw.folders) :
            /\ raw.folders[f] # NoneObj
            /\ "attachments" \in DOMAIN raw.folders[f] =>
                 \A a \in 1..Len(raw.folders[f].attachments) :
                    raw.folders[f].attachments[a] # NoneObj

C12_AbsentDefaulted(raw, parsed) ==
    /\ \A key \in DOMAIN RawFull \ DOMAIN raw :
         \A field \in C12_ParsedFields(key) : parsed[field] = C12_Default(field)
    /\ \A key \in {"startDate", "endDate"} \cap DOMAIN raw :
         \A sub \in {"date", "time"} :
            (raw[key] = NoneObj \/ sub \notin DOMAIN raw[key]) =>
               parsed[(IF key = "startDate" THEN "start_" ELSE "end_") \o sub] = <<>>
    /\ \A key \in PersonKeys \cap DOMAIN raw :
         LET persons == parsed[CHOOSE f \in C12_ParsedFields(key) : TRUE]
         IN /\ Len(persons) = Len(raw[key])
            /\ \A k \in 1..Len(persons) :
                 \A sub \in DOMAIN PersonFull \ DOMAIN raw[key][k] :
                    persons[k][C12_PersonField(sub)] = <<>>
    /\ LET atts == RawAttachments(raw)
       IN /\ Len(parsed.attachments) = Len(atts)
          /\ parsed.attachment_count = Len(atts)
          /\ \A a \in 1..Len(atts) :
               \A sub \in DOMAIN AttachmentFull \ DOMAIN atts[a] :
                  parsed.attachments[a][sub] = C12_AttachmentDefault(sub)

\* C12: parse_contribution raises nothing on a raw record in which fields are
\* absent (whichever of the scalar fields, date objects, session, track, person
\* lists, folders, attachment lists, person or attachment sub-fields), and each
\* absent field holds its default in the returned contribution.
C12_TotalWithDefaults ==
    (pp_pc = "done" /\ C12_FieldsOnlyAbsent(pp_in)) =>
        /\ ~pp_out.raised
        /\ C12_AbsentDefaulted(pp_in, pp_out.value)

C12_Witness ==
    /\ pp_pc = "done"
    /\ C12_FieldsOnlyAbsent(pp_in)
    /\ DOMAIN pp_in \cap {"session", "startDate", "duration", "speakers"} = {}
    /\ ~pp_out.raised
    /\ pp_out.value.session = <<>>
    /\ pp_out.value.duration = 0

C13_Rank(p) ==
    CASE p = "run" -> 0
      [] p = "parse" -> 1
      [] p = "Oral_Presentations" -> 2
      [] p = "Posters" -> 3
      [] p = "Attachments" -> 4
      [] p = "save_all" -> 5
      [] p = "save_by_date" -> 6
      [] p = "finish" -> 7
      [] p \in Terminal -> 8

RECURSIVE C13_AttachmentTotal(_)
C13_AttachmentTotal(list) ==
    IF list = <<>> THEN 0
    ELSE Len(Head(list).attachments) + C13_AttachmentTotal(Tail(list))

C13_FailedCalls == Cardinality({k \in 1..Len(calls) : ~calls[k].result})

C13_PhaseOrder ==
    /\ (stats.total_contributions > 0 \/ Len(oral) + Len(poster) + Len(other) > 0) =>
          /\ fetch_result = "ok"
          /\ gets = 1
          /\ contributions = server
    /\ (calls # <<>> \/ progress # <<>>) =>
          /\ Len(oral) + Len(poster) + Len(other) = Len(contributions)
          /\ stats.total_contributions = Len(contributions)
    /\ \A a, b \in 1..Len(calls) :
          a < b => C13_Rank(calls[a].category) <= C13_Rank(calls[b].category)
    /\ exports # <<>> =>
          /\ C13_Rank(pc) > C13_Rank("Attachments")
          /\ Len(calls) = C13_AttachmentTotal(oral \o poster \o other)
    /\ TopFile("summary") \in DOMAIN exports =>
          /\ exports[TopFile("summary")].downloaded_files = stats.downloaded_files
          /\ exports[TopFile("summary")].errors = stats.errors
          /\ exports[TopFile("summary")].errors = C13_FailedCalls

C13_Forward ==
    /\ pc' # pc => (C13_Rank(pc') > C13_Rank(pc) \/ (pc \in Terminal /\ pc' = "run"))
    /\ (exports # <<>> /\ pc' # "run") => (calls' = calls /\ stats' = stats /\ fs' = fs)

\* C13: the phases of a run never overlap and only move forward: the fetch has
\* succeeded before anything is parsed, all contributions are parsed and
\* classified before the first download, the downloads run oral, poster, other
\* and are all done before the first export file is written, and the download
\* and error counts of the text summary stay equal to the run's counters.
C13_PhasesStrictlyForward == [][C13_PhaseOrder' /\ C13_Forward]_vars

C13_Witness ==
    /\ pc = "returned_true"
    /\ \E a, b \in 1..Len(calls) : calls[a].category # calls[b].category
    /\ exports[TopFile("summary")].downloaded_files > 0
    /\ exports[TopFile("summary")].errors > 0

C14_Partial(files, path) == path \in DOMAIN files /\ ~files[path].complete

C14_Step ==
    /\ \A path \in DOMAIN fs :
         C14_Partial(fs, path) => (path \in DOMAIN fs' /\ fs'[path] = fs[path])
    /\ Len(calls') = Len(calls) + 1 =>
         LET call == calls'[Len(calls')]
         IN /\ call.outcome = "stream_error" => C14_Partial(fs', call.path)
            /\ C14_Partial(fs, call.path) =>
                 /\ call.result
                 /\ call.outcome = "skipped"
                 /\ ~call.requested
                 /\ stats' = stats
                 /\ fs' = fs

\* C14: a download that fails while the chunks are streamed leaves the partial
\* file at the target path; every later download_attachment call for that path,
\* in this run or a later one, returns True without a request and without
\* changing a counter, and the partial file is never replaced.
C14_PartialFileSkippedForever == [][C14_Step]_vars

C14_Witness ==
    /\ \E a, b \in 1..Len(calls) :
         /\ a < b
         /\ calls[a].outcome = "stream_error"
         /\ calls[b].path = calls[a].path
         /\ calls[b].outcome = "skipped"
    /\ \E k \in 1..Len(calls) :
         /\ calls[k].outcome = "skipped"
         /\ C14_Partial(fs, calls[k].path)
         /\ \A a \in 1..(k - 1) : calls[a].path # calls[k].path

C15_List(category) ==
    CASE category = "Oral_Presentations" -> oral
      [] category = "Posters" -> poster
      [] category = "Attachments" -> other

\* the attachments of the run: (category, position in its list, position in the contribution)
C15_Attachments ==
    UNION {UNION {{<<c, n, a>> : a \in 1..Len(C15_List(c)[n].attachments)} :
                     n \in 1..Len(C15_List(c))} : c \in Categories}

C15_CallsWith(outcomes) == Cardinality({k \in 1..Len(calls) : calls[k].outcome \in outcomes})

C15_Counters ==
    fetch_result = "ok" =>
        /\ \A k \in 1..Len(calls) :
             /\ <<calls[k].category, calls[k].index, calls[k].att>> \in C15_Attachments
             /\ calls[k].attachment =
                   C15_List(calls[k].category)[calls[k].index].attachments[calls[k].att]
             /\ \A m \in 1..Len(calls) :
                  (calls[m].category = calls[k].category /\ calls[m].index = calls[k].index
                   /\ calls[m].att = calls[k].att) => m = k
        /\ stats.downloaded_files = C15_CallsWith({"ok"})
        /\ stats.errors = C15_CallsWith({"request_error", "stream_error"})
        /\ pc \in {"save_all", "save_by_date", "finish", "returned_true"} =>
             /\ {<<calls[k].category, calls[k].index, calls[k].att>> : k \in 1..Len(calls)}
                   = C15_Attachments
             /\ C15_CallsWith({"skipped"}) + stats.downloaded_files + stats.errors
                   = Cardinality(C15_Attachments)
             /\ Cardinality(C15_Attachments) = C13_AttachmentTotal(oral \o poster \o other)
             /\ stats.total_contributions = Len(contributions)
             /\ contributions = server

C15_Call ==
    Len(calls') = Len(calls) + 1 =>
        LET call == calls'[Len(calls')]
            skipped == /\ call.outcome = "skipped"
                       /\ call.existed
                       /\ stats' = stats
            downloaded == /\ call.outcome = "ok"
                          /\ ~call.existed
                          /\ stats' = [stats EXCEPT !.downloaded_files = @ + 1]
            failed == /\ call.outcome \in {"request_error", "stream_error"}
                      /\ ~call.existed
                      /\ stats' = [stats EXCEPT !.errors = @ + 1]
        IN /\ skipped \/ downloaded \/ failed
           /\ ~(skipped /\ downloaded) /\ ~(skipped /\ failed) /\ ~(downloaded /\ failed)

\* C15: in a run whose fetch succeeded and whose parsing did not fail,
\* download_attachment is called exactly once for each attachment of each
\* contribution; each call is a skip (no counter changes), a download
\* (downloaded_files + 1 only) or a failure (errors + 1 only); at the end
\* skipped + downloaded_files + errors is the number of attachments and
\* total_contributions is the number of fetched contributions.
C15_OneCallOneOutcome == [][C15_Counters' /\ C15_Call]_vars

C15_Witness ==
    /\ pc = "returned_true"
    /\ C15_CallsWith({"skipped"}) > 0
    /\ stats.downloaded_files > 0
    /\ stats.errors > 0
    /\ Len(contributions) = MaxContribs

====
